---- MODULE Spec2Model ----
(***************************************************************************)
(* Model of the Polars benchmark harness (src/main.rs, src/updated.rs):    *)
(* the trial runner time_operation, the memory telemetry functions         *)
(* get_ram_usage_mb / get_memory_metrics, and the orchestration in main    *)
(* (CSV generation, four forced stages, the lazy pipeline, final report).  *)
(*                                                                         *)
(* Two specifications:                                                     *)
(*   Spec       - one run of main, for both source variants.               *)
(*   SpecTrials - one call of time_operation with an arbitrary trial count *)
(*                and an arbitrary fallible operation.                     *)
(***************************************************************************)
EXTENDS Integers, Sequences, FiniteSets, TLC

VARIABLES
    \* ---- main ----
    mpc,            \* position in main; "harness" under SpecTrials
    variant,        \* "main" (src/main.rs) or "updated" (src/updated.rs)
    stage,          \* number of the stage main is at: 1..4 forced, 5 lazy
    file,           \* rows of data.csv, None before it is written
    df,             \* main's `df`
    lazy_pipeline,  \* main's `lazy_pipeline`
    lazy_result,    \* main's `lazy_result`
    report,         \* what the "Final Results" block printed, None before
    abortError,     \* the panic / Err that ended the process, None otherwise
    lastQuery,      \* latest memory query: its outcome and the sample built
    \* ---- time_operation frame ----
    tpc,            \* position in time_operation
    trials,         \* parameter `trials`
    i,              \* iterations of `for _ in 0..trials` completed
    durations,      \* `durations`
    result,         \* `result`
    avg_duration,   \* `avg_duration`
    retval,         \* the tuple time_operation returned
    \* ---- observations (history) ----
    calls,          \* invocations of `operation` in the current call
    active,         \* invocations of `operation` entered and not yet returned
    lastReturned,   \* what the latest invocation of `operation` returned
    returnedBefore, \* values the earlier invocations of this call returned
    failedAt,       \* number of the invocation that returned Err, 0 if none
    originError,    \* the error value where it first arose
    stageCalls,     \* per stage: invocations of its operation so far
    memSamples,     \* per sampling point (0 = CSV generation): samples taken
    describeCount,  \* calls of describe_optimized_plan
    describedAtCalls, \* lazy-plan executions that preceded the description
    anySampleFailed \* some memory query of this run failed

vars == <<mpc, variant, stage, file, df, lazy_pipeline, lazy_result, report,
          abortError, lastQuery, tpc, trials, i, durations, result,
          avg_duration, retval, calls, active, lastReturned, returnedBefore,
          failedAt, originError, stageCalls, memSamples, describeCount,
          describedAtCalls, anySampleFailed>>

mainVars == <<variant, stage, file, df, lazy_pipeline, lazy_result, report,
              lastQuery, memSamples, describeCount, describedAtCalls,
              anySampleFailed>>

----------------------------------------------------------------------------
(* Bounds of the model *)

\* Largest per-call duration the clock reports, in nanoseconds.
MaxDuration == 1

\* u32 is modelled as the integers modulo U32Modulus (2^32 in the build), so
\* that a trial count that does not fit the divisor's type is reachable.
U32Modulus == 8

\* Largest number of rows of an enumerated data.csv (100_000 in the build).
MaxRows == 2

(* Program constants *)
ForcedTrials == 3
LazyTrials == 5
FilterThreshold == 500
BytesPerKiB == 1024

----------------------------------------------------------------------------
(* Option<T> *)
None == {}
Some(x) == {x}
Unwrap(o) == CHOOSE x \in o : TRUE

(* Input sets *)
\* start.elapsed(): the shortest and the longest duration the clock reports
Durations == {0, MaxDuration}
Errors == {"ComputeError"}
OpaqueResults == {"r1", "r2"}
TrialInputs == {0, 1, 2, 3, U32Modulus, U32Modulus + 1}
Categories == {"A", "B"}
Values == {500, 900}

Row(n, c, v) == [id |-> n, category |-> c, value |-> v]

\* The rows the generator loop writes: ids 0..n-1 in order, a category and a
\* value per row.
RowSeqs(n) ==
    { [k \in 1..n |-> Row(k - 1, cv[k][1], cv[k][2])] :
        cv \in [1..n -> Categories \X Values] }

ExampleRows ==
    << Row(0, "A", 100), Row(1, "A", 600), Row(2, "B", 200),
       Row(3, "B", 700), Row(4, "B", 900) >>

DataSets == UNION { RowSeqs(n) : n \in 1..MaxRows } \cup { ExampleRows }

----------------------------------------------------------------------------
(* Tabular engine operations, as the closures handed to time_operation use   *)
(* them.  A frame is a sequence of rows; the aggregated frame is the set of  *)
(* its group rows (group_by does not fix an order).                          *)

RECURSIVE GCD(_, _)
GCD(a, b) == IF b = 0 THEN a ELSE GCD(b, a % b)

\* An exact mean: the fraction sum/count in lowest terms.
Fraction(num, den) == LET g == GCD(num, den) IN <<num \div g, den \div g>>

RECURSIVE SumValues(_)
SumValues(rows) ==
    IF rows = <<>> THEN 0 ELSE Head(rows).value + SumValues(Tail(rows))

RECURSIVE SumIds(_)
SumIds(rows) ==
    IF rows = <<>> THEN 0 ELSE Head(rows).id + SumIds(Tail(rows))

\* LazyCsvReader::new("data.csv").with_has_header(true).finish()?.collect()
ReadCsv(f) == Unwrap(f)

\* .sort(["value"], Default::default()): ascending by value; the default
\* options do not maintain the order of equal values, so every ordering of
\* ties is a possible outcome.
SortOutcomes(rows) ==
    LET n == Len(rows) IN
    { [k \in 1..n |-> rows[p[k]]] :
        p \in { q \in Permutations(1..n) :
                  \A k \in 1..(n - 1) : rows[q[k]].value <= rows[q[k + 1]].value } }

\* col("value").gt(lit(500.0))
FilterPredicate(row) == row.value > FilterThreshold

\* .filter(col("value").gt(lit(500.0)))
FilterRows(rows) == SelectSeq(rows, FilterPredicate)

\* .group_by([col("category")])
\*     .agg([col("id").mean() as id_mean, col("value").mean() as value_mean])
GroupByMean(rows) ==
    { LET grp == SelectSeq(rows, LAMBDA r : r.category = c) IN
        [category   |-> c,
         id_mean    |-> Fraction(SumIds(grp), Len(grp)),
         value_mean |-> Fraction(SumValues(grp), Len(grp))] :
      c \in { rows[k].category : k \in DOMAIN rows } }

\* The composed plan: scan of data.csv, then sort, filter, group-and-aggregate.
ComposePlan == [source |-> "data.csv", ops |-> <<"sort", "filter", "agg">>]

RECURSIVE ExecutePlan(_, _)
\* lazy_pipeline.clone().collect(): the frames the plan's operations can
\* produce, applied in the plan's order to every frame in `frames`.
ExecutePlan(ops, frames) ==
    IF ops = <<>> THEN frames
    ELSE ExecutePlan(Tail(ops),
            CASE Head(ops) = "sort"   -> UNION { SortOutcomes(f) : f \in frames }
              [] Head(ops) = "filter" -> { FilterRows(f) : f \in frames }
              [] Head(ops) = "agg"    -> { GroupByMean(f) : f \in frames })

----------------------------------------------------------------------------
(* Memory telemetry *)

Megabytes(bytes) == (bytes \div BytesPerKiB) \div BytesPerKiB

\* What K32GetProcessMemoryInfo can leave in mem_counters.
MemCounters ==
    { [WorkingSetSize |-> 5243903, PrivateUsage |-> 2097152,
       PagefileUsage |-> 1048576, PeakWorkingSetSize |-> 3145728] }

\* src/main.rs
get_ram_usage_mb(ok, mem_counters) ==
    IF ok THEN [working_set_mb |-> Megabytes(mem_counters.WorkingSetSize)]
    ELSE [working_set_mb |-> 0]

\* Variant of get_memory_metrics that does not test the query's outcome.
get_memory_metrics_unchecked(ok, mem_counters) ==
    [working_set_mb      |-> Megabytes(mem_counters.WorkingSetSize),
     private_usage_mb    |-> Megabytes(mem_counters.PrivateUsage),
     pagefile_usage_mb   |-> Megabytes(mem_counters.PagefileUsage),
     peak_working_set_mb |-> Megabytes(mem_counters.PeakWorkingSetSize)]

\* src/updated.rs
get_memory_metrics(ok, mem_counters) ==
    IF ok
    THEN [working_set_mb      |-> Megabytes(mem_counters.WorkingSetSize),
          private_usage_mb    |-> Megabytes(mem_counters.PrivateUsage),
          pagefile_usage_mb   |-> Megabytes(mem_counters.PagefileUsage),
          peak_working_set_mb |-> Megabytes(mem_counters.PeakWorkingSetSize)]
    ELSE [working_set_mb |-> 0, private_usage_mb |-> 0,
          pagefile_usage_mb |-> 0, peak_working_set_mb |-> 0]

----------------------------------------------------------------------------
(* time_operation *)

\* PolarsResult<T>
Ok(v) == <<"Ok", v>>
Err(e) == <<"Err", e>>

\* `trials as u32`
AsU32(n) == n % U32Modulus

RECURSIVE SumDurations(_)
\* durations.iter().sum::<Duration>()
SumDurations(ds) == IF ds = <<>> THEN 0 ELSE Head(ds) + SumDurations(Tail(ds))

\* Duration / u32: checked_div(rhs).expect("divide by zero error ...")
DurationDiv(total, rhs) ==
    IF rhs = 0
    THEN [panicked |-> TRUE,
          val |-> [msg |-> "divide by zero error when dividing duration by scalar",
                   err |-> "none"]]
    ELSE [panicked |-> FALSE, val |-> total \div rhs]

\* Variant of LoopContinues with an inclusive upper end (0..=trials).
LoopContinuesInclusive(done, n) == done <= n

\* `for _ in 0..trials`: whether another iteration runs after `done` of them
LoopContinues(done, n) == done < n

\* Variant of Expect that takes the error for a value and goes on.
ExpectIgnoringErr(r) == [panicked |-> FALSE, val |-> r[2]]

\* operation().expect("Operation failed")
Expect(r) ==
    IF r[1] = "Ok"
    THEN [panicked |-> FALSE, val |-> r[2]]
    ELSE [panicked |-> TRUE, val |-> [msg |-> "Operation failed", err |-> r[2]]]

\* Variant of AssignResult that keeps the first result.
AssignResultOnce(old, op_result) == IF old = None THEN Some(op_result) ELSE old

\* result = Some(op_result)
AssignResult(old, op_result) == Some(op_result)

\* Variant of Try that does not return on Err.
TryIgnoringErr(r) == [returned |-> FALSE, val |-> r[2]]

\* The `?` operator in main
Try(r) ==
    IF r[1] = "Ok"
    THEN [returned |-> FALSE, val |-> r[2]]
    ELSE [returned |-> TRUE, val |-> [msg |-> "Error", err |-> r[2]]]

\* Variants of StageTrials that pass one count for every stage.
StageTrialsAllLazy(s) == LazyTrials
StageTrialsAllForced(s) == ForcedTrials

\* The trial count main passes for a stage
StageTrials(s) == IF s = 5 THEN LazyTrials ELSE ForcedTrials

\* The closure main passes for a stage: the frames one invocation can produce
StageOperation(s) ==
    CASE s = 1 -> { ReadCsv(file) }
      [] s = 2 -> SortOutcomes(Unwrap(df))
      [] s = 3 -> { FilterRows(Unwrap(df)) }
      [] s = 4 -> { GroupByMean(Unwrap(df)) }
      [] s = 5 -> ExecutePlan(Unwrap(lazy_pipeline).ops, { ReadCsv(file) })

\* What `operation()` can return
OperationOutcomes ==
    { Ok(v) : v \in (IF mpc = "harness" THEN OpaqueResults ELSE StageOperation(stage)) }
        \cup { Err(e) : e \in Errors }

\* A panic unwinds through main and ends the process.
AfterPanic == IF mpc = "harness" THEN "harness" ELSE "aborted"

\* for _ in 0..trials { let start = Instant::now(); operation() ...
Invoke ==
    /\ tpc = "loop"
    /\ LoopContinues(i, trials)
    /\ tpc' = "calling"
    /\ calls' = calls + 1
    /\ active' = active + 1
    /\ stageCalls' = IF mpc = "harness" THEN stageCalls
                     ELSE [stageCalls EXCEPT ![stage] = @ + 1]
    /\ UNCHANGED <<mpc, mainVars, abortError, trials, i, durations, result,
                   avg_duration, retval, lastReturned, returnedBefore, failedAt,
                   originError>>

\* ... .expect("Operation failed"); durations.push(start.elapsed());
\* result = Some(op_result); }
OperationReturns ==
    /\ tpc = "calling"
    /\ \E op_result \in OperationOutcomes, elapsed \in Durations :
         LET x == Expect(op_result) IN
         /\ active' = active - 1
         /\ lastReturned' = Some(op_result)
         /\ returnedBefore' = returnedBefore \cup { r[2] : r \in lastReturned }
         /\ failedAt' = IF op_result[1] = "Err" THEN calls ELSE failedAt
         /\ originError' = IF op_result[1] = "Err" THEN Some(op_result[2])
                           ELSE originError
         /\ IF x.panicked
            THEN /\ tpc' = "panicked"
                 /\ abortError' = Some(x.val)
                 /\ mpc' = AfterPanic
                 /\ UNCHANGED <<durations, result, i>>
            ELSE /\ durations' = Append(durations, elapsed)
                 /\ result' = AssignResult(result, x.val)
                 /\ i' = i + 1
                 /\ tpc' = "loop"
                 /\ UNCHANGED <<abortError, mpc>>
    /\ UNCHANGED <<mainVars, trials, avg_duration, retval, calls, stageCalls>>

\* let avg_duration = durations.iter().sum::<Duration>() / trials as u32;
\* println!(...)
Average ==
    /\ tpc = "loop"
    /\ ~LoopContinues(i, trials)
    /\ LET q == DurationDiv(SumDurations(durations), AsU32(trials)) IN
         IF q.panicked
         THEN /\ tpc' = "panicked"
              /\ abortError' = Some(q.val)
              /\ mpc' = AfterPanic
              /\ UNCHANGED avg_duration
         ELSE /\ avg_duration' = Some(q.val)
              /\ tpc' = "averaged"
              /\ UNCHANGED <<abortError, mpc>>
    /\ UNCHANGED <<mainVars, trials, i, durations, result, retval, calls,
                   active, lastReturned, returnedBefore, failedAt, originError,
                   stageCalls>>

\* (result.unwrap(), avg_duration)
Return ==
    /\ tpc = "averaged"
    /\ IF result = None
       THEN /\ tpc' = "panicked"
            /\ abortError' = Some([msg |-> "called Option::unwrap() on a None value",
                                   err |-> "none"])
            /\ mpc' = AfterPanic
            /\ UNCHANGED retval
       ELSE /\ retval' = Some([value |-> Unwrap(result), avg |-> Unwrap(avg_duration)])
            /\ tpc' = "returned"
            /\ UNCHANGED <<abortError, mpc>>
    /\ UNCHANGED <<mainVars, trials, i, durations, result, avg_duration, calls,
                   active, lastReturned, returnedBefore, failedAt, originError,
                   stageCalls>>

TimeOperation == Invoke \/ OperationReturns \/ Average \/ Return

\* One call time_operation(operation, n, name) from a caller outside main.
InitTrials ==
    /\ mpc = "harness"
    /\ variant = "updated"
    /\ stage = 0
    /\ file = None
    /\ df = None
    /\ lazy_pipeline = None
    /\ lazy_result = None
    /\ report = None
    /\ abortError = None
    /\ lastQuery = None
    /\ tpc = "loop"
    /\ trials \in TrialInputs
    /\ i = 0
    /\ durations = <<>>
    /\ result = None
    /\ avg_duration = None
    /\ retval = None
    /\ calls = 0
    /\ active = 0
    /\ lastReturned = None
    /\ returnedBefore = {}
    /\ failedAt = 0
    /\ originError = None
    /\ stageCalls = [s \in 1..5 |-> 0]
    /\ memSamples = [s \in 0..5 |-> 0]
    /\ describeCount = 0
    /\ describedAtCalls = 0
    /\ anySampleFailed = FALSE

NextTrials == TimeOperation

SpecTrials == InitTrials /\ [][NextTrials]_vars

----------------------------------------------------------------------------
(* main *)

\* The position after the memory sample of sampling point s: the next forced
\* stage, the lazy section after "GroupBy + Aggregate", the final results
\* after "Full Lazy Pipeline".
AfterSample(s) ==
    CASE s \in 0..3 -> [mpc |-> "call", stage |-> s + 1]
      [] s = 4      -> [mpc |-> "compose", stage |-> 5]
      [] s = 5      -> [mpc |-> "report", stage |-> 5]

\* print_ram / print_memory_detailed: the sample the variant's provider builds
Sample(v, ok, mem_counters) ==
    IF v = "main" THEN get_ram_usage_mb(ok, mem_counters)
    ELSE get_memory_metrics(ok, mem_counters)

\* Variant of AssignDf without `df = filtered_df;`.
AssignDfSkippingFilter(s, old, returned) == IF s = 3 THEN old ELSE Some(returned)

\* `df = sorted_df;` and its siblings: the frame main keeps after stage s
AssignDf(s, old, returned) == Some(returned)

\* 1. Generate CSV with buffered writing
GenerateCsv ==
    /\ mpc = "gen_csv"
    /\ \E written \in BOOLEAN :
         IF written
         THEN /\ \E rows \in DataSets : file' = Some(rows)
              /\ mpc' = "sample"
              /\ UNCHANGED <<abortError, originError>>
         ELSE /\ originError' = Some("IoError")
              /\ abortError' = Some([msg |-> "Failed to create CSV file",
                                     err |-> "IoError"])
              /\ mpc' = "aborted"
              /\ UNCHANGED file
    /\ UNCHANGED <<variant, stage, df, lazy_pipeline, lazy_result, report,
                   lastQuery, tpc, trials, i, durations, result, avg_duration,
                   retval, calls, active, lastReturned, returnedBefore, failedAt, stageCalls,
                   memSamples, describeCount, describedAtCalls, anySampleFailed>>

\* print_memory_detailed(stage) / print_ram(stage)
SampleMemory ==
    /\ mpc = "sample"
    /\ \E ok \in BOOLEAN, mem_counters \in MemCounters :
         /\ lastQuery' = Some([ok |-> ok, sample |-> Sample(variant, ok, mem_counters)])
         /\ anySampleFailed' = (anySampleFailed \/ ~ok)
    /\ memSamples' = [memSamples EXCEPT ![stage] = @ + 1]
    /\ mpc' = AfterSample(stage).mpc
    /\ stage' = AfterSample(stage).stage
    /\ UNCHANGED <<variant, file, df, lazy_pipeline, lazy_result, report,
                   abortError, tpc, trials, i, durations, result, avg_duration,
                   retval, calls, active, lastReturned, returnedBefore, failedAt, originError,
                   stageCalls, describeCount, describedAtCalls>>

\* time_operation(|| ..., 3 or 5, name): entry into the call
CallTimeOperation ==
    /\ mpc = "call"
    /\ mpc' = "in_call"
    /\ tpc' = "loop"
    /\ trials' = StageTrials(stage)
    /\ i' = 0
    /\ durations' = <<>>
    /\ result' = None
    /\ avg_duration' = None
    /\ retval' = None
    /\ calls' = 0
    /\ lastReturned' = None
    /\ returnedBefore' = {}
    /\ UNCHANGED <<mainVars, abortError, active, failedAt, originError,
                   stageCalls>>

\* let (sorted_df, _) = time_operation(...); df = sorted_df;
\* (time_operation's locals are gone once it has returned)
StageReturn ==
    /\ mpc = "in_call"
    /\ tpc = "returned"
    /\ IF stage = 5
       THEN /\ lazy_result' = Some(Unwrap(retval).value)
            /\ UNCHANGED df
       ELSE /\ df' = AssignDf(stage, df, Unwrap(retval).value)
            /\ UNCHANGED lazy_result
    /\ tpc' = "idle"
    /\ i' = 0
    /\ durations' = <<>>
    /\ result' = None
    /\ avg_duration' = None
    /\ retval' = None
    /\ lastReturned' = None
    /\ returnedBefore' = {}
    /\ mpc' = "sample"
    /\ UNCHANGED <<variant, stage, file, lazy_pipeline, report, abortError,
                   lastQuery, trials, calls, active, failedAt, originError,
                   stageCalls, memSamples, describeCount, describedAtCalls,
                   anySampleFailed>>

\* let lazy_pipeline = LazyCsvReader::new("data.csv")...finish()?.sort(..)
\*     .filter(..).group_by(..).agg(..);
ComposeLazy ==
    /\ mpc = "compose"
    /\ \E r \in { Ok(ComposePlan) } \cup { Err(e) : e \in Errors } :
         LET x == Try(r) IN
         /\ originError' = IF r[1] = "Err" THEN Some(r[2]) ELSE originError
         /\ IF x.returned
            THEN /\ abortError' = Some(x.val)
                 /\ mpc' = "aborted"
                 /\ UNCHANGED lazy_pipeline
            ELSE /\ lazy_pipeline' = Some(x.val)
                 /\ mpc' = "describe"
                 /\ UNCHANGED abortError
    /\ UNCHANGED <<variant, stage, file, df, lazy_result, report, lastQuery,
                   tpc, trials, i, durations, result, avg_duration, retval,
                   calls, active, lastReturned, returnedBefore, failedAt, stageCalls,
                   memSamples, describeCount, describedAtCalls, anySampleFailed>>

\* println!("{}", lazy_pipeline.describe_optimized_plan()?);
DescribePlan ==
    /\ mpc = "describe"
    /\ describeCount' = describeCount + 1
    /\ describedAtCalls' = stageCalls[5]
    /\ \E r \in { Ok("plan") } \cup { Err(e) : e \in Errors } :
         LET x == Try(r) IN
         /\ originError' = IF r[1] = "Err" THEN Some(r[2]) ELSE originError
         /\ IF x.returned
            THEN /\ abortError' = Some(x.val)
                 /\ mpc' = "aborted"
            ELSE /\ mpc' = "call"
                 /\ UNCHANGED abortError
    /\ UNCHANGED <<variant, stage, file, df, lazy_pipeline, lazy_result,
                   report, lastQuery, tpc, trials, i, durations, result,
                   avg_duration, retval, calls, active, lastReturned, returnedBefore, failedAt,
                   stageCalls, memSamples, anySampleFailed>>

\* println!("Individual operations result:\n{}", df);
\* println!("\nLazy pipeline result:\n{}", lazy_result); ... Ok(())
Report ==
    /\ mpc = "report"
    /\ report' = Some([forced |-> Unwrap(df), lazy |-> Unwrap(lazy_result)])
    /\ mpc' = "exit_ok"
    /\ UNCHANGED <<variant, stage, file, df, lazy_pipeline, lazy_result,
                   abortError, lastQuery, tpc, trials, i, durations, result,
                   avg_duration, retval, calls, active, lastReturned, returnedBefore, failedAt,
                   originError, stageCalls, memSamples, describeCount,
                   describedAtCalls, anySampleFailed>>

Init ==
    /\ mpc = "gen_csv"
    /\ variant \in {"main", "updated"}
    /\ stage = 0
    /\ file = None
    /\ df = None
    /\ lazy_pipeline = None
    /\ lazy_result = None
    /\ report = None
    /\ abortError = None
    /\ lastQuery = None
    /\ tpc = "idle"
    /\ trials = 0
    /\ i = 0
    /\ durations = <<>>
    /\ result = None
    /\ avg_duration = None
    /\ retval = None
    /\ calls = 0
    /\ active = 0
    /\ lastReturned = None
    /\ returnedBefore = {}
    /\ failedAt = 0
    /\ originError = None
    /\ stageCalls = [s \in 1..5 |-> 0]
    /\ memSamples = [s \in 0..5 |-> 0]
    /\ describeCount = 0
    /\ describedAtCalls = 0
    /\ anySampleFailed = FALSE

Next ==
    \/ GenerateCsv
    \/ SampleMemory
    \/ CallTimeOperation
    \/ TimeOperation
    \/ StageReturn
    \/ ComposeLazy
    \/ DescribePlan
    \/ Report

Spec == Init /\ [][Next]_vars

----------------------------------------------------------------------------
(* Properties of time_operation, checked under SpecTrials *)

Finished == tpc \in {"averaged", "returned", "panicked"}

\* C1: with trials >= 1 and an operation that succeeds on every call, one
\* call of time_operation invokes the operation exactly `trials` times, one
\* after another (never two invocations in progress), and none once the
\* average has been computed.
C1_ExactlyTrialsSequentialCalls ==
    /\ active \in {0, 1}
    /\ (active = 1) <=> (tpc = "calling")
    /\ (trials >= 1 /\ failedAt = 0) =>
          /\ calls <= trials
          /\ Finished => (calls = trials /\ active = 0)
          /\ (avg_duration # None) => (calls = trials /\ active = 0)

C1_Witness ==
    /\ tpc = "returned"
    /\ trials = 3
    /\ calls = 3
    /\ failedAt = 0

\* C2: if the k-th invocation fails, time_operation stops there: the
\* operation has been invoked exactly k <= trials times and is not invoked
\* again, no duration of the failed call is kept, no average is computed or
\* returned, and the panic that ends the call carries the operation's error.
C2_FailFastOnOperationError ==
    (failedAt > 0) =>
        /\ tpc = "panicked"
        /\ calls = failedAt
        /\ failedAt <= trials
        /\ active = 0
        /\ Len(durations) = failedAt - 1
        /\ avg_duration = None
        /\ retval = None
        /\ originError # None
        /\ abortError = Some([msg |-> "Operation failed", err |-> Unwrap(originError)])

C2_Witness ==
    /\ failedAt = 2
    /\ trials = 3
    /\ tpc = "panicked"
    /\ calls = 2

\* C3: time_operation with trials = 0 is rejected with a configuration
\* error before any invocation: zero calls, and the outcome is a
\* configuration error, not an average and not an arithmetic fault.
C3_ZeroTrialsIsConfigurationError ==
    (trials = 0 /\ tpc # "loop") =>
        /\ calls = 0
        /\ tpc = "panicked"
        /\ retval = None
        /\ \A e \in abortError : e.msg = "ConfigurationError"

\* C4: for every trials >= 1, also one that does not fit the u32 divisor,
\* the average time_operation returns is >= 0 and equals
\* floor((d_1 + ... + d_trials) / trials).
C4_AverageIsFloorOfMean ==
    (trials >= 1 /\ tpc = "returned") =>
        /\ Unwrap(retval).avg >= 0
        /\ Unwrap(retval).avg = SumDurations(durations) \div trials

\* C7: when all invocations succeed, the value time_operation returns is
\* the result of the last (trials-th) invocation, whatever the earlier
\* invocations returned.
C7_ReturnsLastResult ==
    (tpc = "returned") =>
        /\ calls = trials
        /\ lastReturned # None
        /\ Unwrap(retval).value = Unwrap(lastReturned)[2]

C7_Witness ==
    /\ tpc = "returned"
    /\ trials = 3
    /\ returnedBefore = {"r1"}
    /\ Unwrap(retval).value = "r2"

----------------------------------------------------------------------------
(* Properties of a run of main, checked under Spec *)

\* Invocations per stage of a run that has completed every stage
CompletedCalls == [s \in 1..5 |-> IF s = 5 THEN 5 ELSE 3]

\* C5: a run ends either with the final results printed, after all four
\* forced stages and the lazy plan have completed all their trials and
\* nothing has failed, or aborted with the error that arose and without the
\* final results; once anything has failed the run is aborted and the final
\* results are never printed.
C5_FullReportOrAbort ==
    /\ (mpc = "exit_ok") =>
          /\ report = Some([forced |-> Unwrap(df), lazy |-> Unwrap(lazy_result)])
          /\ stageCalls = CompletedCalls
          /\ originError = None
          /\ abortError = None
    /\ (mpc = "aborted") =>
          /\ report = None
          /\ originError # None
          /\ abortError # None
          /\ Unwrap(abortError).err = Unwrap(originError)
    /\ (originError # None) => (mpc = "aborted" /\ report = None)
    /\ (report # None) => (mpc = "exit_ok")
    /\ (~ENABLED Next) => (mpc \in {"exit_ok", "aborted"})

C5_Witness ==
    /\ mpc = "aborted"
    /\ stageCalls = [CompletedCalls EXCEPT ![5] = 3]
    /\ failedAt = 3
    /\ report = None

\* The value means of an aggregated frame, per category
ValueMeans(frame) ==
    { [category |-> g.category, value_mean |-> g.value_mean] : g \in frame }

C8_TelemetryNeverFailsOutwardly ==
    /\ \A q \in lastQuery :
          /\ \A f \in DOMAIN q.sample : q.sample[f] >= 0
          /\ (~q.ok) => (\A f \in DOMAIN q.sample : q.sample[f] = 0)
    /\ (anySampleFailed /\ originError = None) => (mpc # "aborted" /\ abortError = None)
    /\ \A s \in 1..5 : stageCalls[s] <= CompletedCalls[s]
    /\ (mpc \in {"report", "exit_ok"}) => (stageCalls = CompletedCalls)

C8_Witness ==
    /\ mpc = "exit_ok"
    /\ anySampleFailed
    /\ \E q \in lastQuery : ~q.ok
    /\ stageCalls = CompletedCalls

\* C9: the forced stages run in the order Load, Sort, Filter, Aggregate with
\* exactly 3 trials each; each stage gets exactly one memory sample, taken
\* after its last trial has returned and before the next stage's first
\* invocation; no later stage is invoked before an earlier one has finished.
C9_ForcedStagesInOrder ==
    /\ \A s \in 1..4 :
          /\ stageCalls[s] <= 3
          /\ memSamples[s] <= 1
          /\ (memSamples[s] = 1) =>
                (stageCalls[s] = 3 /\ ~(stage = s /\ mpc = "in_call"))
          /\ (stageCalls[s + 1] > 0) => (stageCalls[s] = 3 /\ memSamples[s] = 1)
          /\ (stage > s) => (stageCalls[s] = 3 /\ memSamples[s] = 1)
    /\ (mpc = "exit_ok") =>
          \A s \in 1..4 : stageCalls[s] = 3 /\ memSamples[s] = 1

C9_Witness ==
    /\ stage = 4
    /\ stageCalls[4] = 1
    /\ memSamples[3] = 1
    /\ stageCalls[3] = 3

\* C10: lazy mode starts after the forced Aggregate stage has completed;
\* composing the plan executes nothing; the optimized plan is described
\* exactly once, before the plan's first execution; the plan is executed
\* exactly 5 times; memory is sampled exactly once, after the fifth
\* execution, never between executions.
C10_LazyProtocol ==
    /\ (lazy_pipeline # None \/ describeCount > 0 \/ stageCalls[5] > 0) =>
          (stageCalls[4] = 3 /\ memSamples[4] = 1)
    /\ (mpc = "describe") => (lazy_pipeline # None /\ stageCalls[5] = 0)
    /\ describeCount <= 1
    /\ describedAtCalls = 0
    /\ (stageCalls[5] > 0) => (describeCount = 1)
    /\ stageCalls[5] <= 5
    /\ memSamples[5] <= 1
    /\ (memSamples[5] = 1) => (stageCalls[5] = 5 /\ mpc \in {"report", "exit_ok"})
    /\ (mpc = "exit_ok") =>
          (stageCalls[5] = 5 /\ memSamples[5] = 1 /\ describeCount = 1)

C10_Witness ==
    /\ mpc = "report"
    /\ stageCalls[5] = 5
    /\ memSamples[5] = 1
    /\ describeCount = 1

====
